---- MODULE Spec2Model ----
(***************************************************************************)
(* Model of LabelService (src/src/index.ts, lines 178-695): the label      *)
(* store behind the ORM (events, labels, label-event associations, the     *)
(* per-type sub-records) and the service calls that read and write it.     *)
(* Every call is one action; the outcome of the last call (its arguments,  *)
(* the HTTP status of the application error it threw, or 200, and the DTO  *)
(* it returned) is kept in `result`.                                       *)
(***************************************************************************)
EXTENDS Integers, Sequences, FiniteSets, TLC

VARIABLES
    events,       \* the event table: id -> [timestamp, device_id, type, image_path]
    labels,       \* the label table: id -> label row (with its sub-record set)
    labelEvents,  \* the join table: set of <<label_id, event_id>>
    nextId,       \* the label table's autoincrement counter
    clock,        \* the store's clock, source of created_at
    result        \* outcome of the last service call

vars == <<events, labels, labelEvents, nextId, clock, result>>

----------------------------------------------------------------------------
(* Bounds of the model *)

MaxEvents == 3     \* events in the store
MaxLabels == 2     \* labels ever created
MaxIds == 2        \* length of an event_ids list
MaxPage == 3       \* page numbers asked for
MaxLimit == 2      \* page sizes asked for

----------------------------------------------------------------------------
(* Values *)

NoValue == "undefined"
Null == "null"

LabelTypes == {"song", "ad", "error", "program", "movie", "promo", "sports"}

EventIds == 1..MaxEvents
\* an id that names no event
MissingEventId == MaxEvents + 1
LabelIds == 1..MaxLabels
\* an id that names no label, whatever has been created
MissingLabelId == MaxLabels + 1

Users == {"u1", "u2"}

\* the event rows are written by the ingestion pipeline; timestamp, device,
\* type and image path of the rows used here (timestamps neither follow the
\* ids nor are distinct)
TimestampOf(e) == IF e % 2 = 1 THEN 2 ELSE 1
DeviceOf(e) == IF e <= 2 THEN "d1" ELSE "d2"
TypeOf(e) == IF e % 2 = 1 THEN "t1" ELSE "t2"
ImageOf(e) == <<"img", e>>

----------------------------------------------------------------------------
(* Helpers on sets and sequences *)

Range(s) == {s[i] : i \in DOMAIN s}

SeqsUpTo(S, n) == UNION {[1..k -> S] : k \in 0..n}

\* all orders in which a store may hand back the rows of a set
Perms(S) == {s \in [1..Cardinality(S) -> S] : Range(s) = S}

\* Math.min(...xs) / Math.max(...xs) of the numbers xs, at least one
MathMin(xs) == CHOOSE m \in xs : \A x \in xs : m <= x
MathMax(xs) == CHOOSE m \in xs : \A x \in xs : m >= x

\* Math.ceil(a / b) for a >= 0, b >= 1
MathCeil(a, b) == IF a % b = 0 THEN a \div b ELSE (a \div b) + 1

\* insert x into the sorted sequence s after every element whose key is <= key(x)
RECURSIVE InsertBy(_, _, _)
InsertBy(x, s, key) ==
    IF s = <<>> THEN <<x>>
    ELSE IF key[Head(s)] <= key[x] THEN <<Head(s)>> \o InsertBy(x, Tail(s), key)
    ELSE <<x>> \o s

\* Array.prototype.sort((a, b) => key(a) - key(b)): stable, ascending
RECURSIVE SortBy(_, _)
SortBy(s, key) ==
    IF s = <<>> THEN <<>>
    ELSE InsertBy(s[Len(s)], SortBy(SubSeq(s, 1, Len(s) - 1), key), key)

Reverse(s) == [i \in 1..Len(s) |-> s[Len(s) + 1 - i]]

Map(s, f) == [i \in 1..Len(s) |-> f[s[i]]]

----------------------------------------------------------------------------
(* The store *)

timestampOf == [e \in DOMAIN events |-> events[e].timestamp]
imagePathOf == [e \in DOMAIN events |-> events[e].image_path]

\* prisma.event.findMany({ where: { id: { in: eventIds } } }): the rows found
findEvents(eventIds) == {e \in DOMAIN events : e \in Range(eventIds)}

\* the events a label is associated with
eventsOfLabel(id) == {le[2] : le \in {x \in labelEvents : x[1] = id}}

\* the labels an event is associated with
labelsOfEvent(e) == {le[1] : le \in {x \in labelEvents : x[2] = e}}

Init ==
    /\ events = [e \in EventIds |->
                   [timestamp |-> TimestampOf(e), device_id |-> DeviceOf(e),
                    type |-> TypeOf(e), image_path |-> ImageOf(e)]]
    /\ labels = << >>
    /\ labelEvents = {}
    /\ nextId = 1
    /\ clock = 1
    /\ result = [op |-> "none", status |-> 200, arg |-> NoValue, out |-> NoValue]

----------------------------------------------------------------------------
(* Call outcomes *)

Outcome(op, status, arg, out) ==
    [op |-> op, status |-> status, arg |-> arg, out |-> out]

\* the call threw: the store is as it was
Fails(op, status, arg) ==
    /\ result' = Outcome(op, status, arg, NoValue)
    /\ UNCHANGED <<events, labels, labelEvents, nextId, clock>>

\* the DTO every label-returning call assembles from a row, the ids of its
\* events in the order they are listed, and the image paths
LabelDto(id, row, eventIds, imagePaths) ==
    [id |-> id, event_ids |-> eventIds, label_type |-> row.label_type,
     created_by |-> row.created_by, created_at |-> row.created_at,
     start_time |-> row.start_time, end_time |-> row.end_time,
     notes |-> row.notes, image_paths |-> imagePaths, subs |-> row.subs]

----------------------------------------------------------------------------
(* createLabel *)

\* a slip that reports every failure of the create alike
createLabelCatchGeneric(thrown) == 500

\* the catch block of createLabel: a unique-constraint error of the store
\* becomes a 400, anything else thrown in the try block a 500
createLabelCatch(thrown) == IF thrown = "P2002" THEN 400 ELSE 500

\* the unique constraint of the join table on (label_id, event_id): a nested
\* create that names an event twice for the new label violates it
violatesUnique(eventIds) == Cardinality(Range(eventIds)) # Len(eventIds)

\* the type-specific sub-record the create writes: the one named by
\* label_type, and only when its payload is part of the request
createSubs(data) ==
    IF data.label_type \in data.sub THEN {data.label_type} ELSE {}

\* a slip that takes the first row found for the earliest
createStartTimeFirstRow(rows) == timestampOf[CHOOSE e \in rows : \A o \in rows : e <= o]

\* start_time and end_time of a new label, from the rows found
createStartTime(rows) == MathMin({timestampOf[e] : e \in rows})
createEndTime(rows) == MathMax({timestampOf[e] : e \in rows})

\* a slip that stores the two bounds the wrong way round
createRowSwapped(data, found) ==
    [label_type |-> data.label_type,
     created_by |-> data.created_by,
     created_at |-> clock,
     start_time |-> createEndTime(found),
     end_time |-> createStartTime(found),
     notes |-> data.notes,
     subs |-> createSubs(data)]

\* the row prisma.label.create writes for labelData
createRow(data, found) ==
    [label_type |-> data.label_type,
     created_by |-> data.created_by,
     created_at |-> clock,
     start_time |-> createStartTime(found),
     end_time |-> createEndTime(found),
     notes |-> data.notes,
     subs |-> createSubs(data)]

createLabel(data) ==
    LET eventIds == data.event_ids
        found == findEvents(eventIds)
    IN  IF Cardinality(found) # Len(eventIds)
        THEN Fails("createLabel", createLabelCatch("AppError404"), data)
        ELSE IF eventIds = << >>
        THEN \* BigInt(Math.min()) = BigInt(Infinity) throws a RangeError
             Fails("createLabel", createLabelCatch("RangeError"), data)
        ELSE IF violatesUnique(eventIds)
        THEN Fails("createLabel", createLabelCatch("P2002"), data)
        ELSE
          /\ nextId <= MaxLabels
          /\ \E included \in Perms(found) :
               LET row == createRow(data, found)
                   sorted == SortBy(included, timestampOf)
               IN  /\ labels' = [i \in DOMAIN labels \cup {nextId} |->
                                   IF i = nextId THEN row ELSE labels[i]]
                   /\ labelEvents' = labelEvents \cup
                                       {<<nextId, e>> : e \in Range(eventIds)}
                   /\ nextId' = nextId + 1
                   /\ clock' = clock + 1
                   /\ result' = Outcome("createLabel", 200, data,
                                   LabelDto(nextId, row, sorted,
                                            Map(sorted, imagePathOf)))
                   /\ UNCHANGED events

\* the errors prisma.label.create may raise on a well-formed create: the
\* unique-constraint error, whose constraint is the schema's, and a failure
\* of the store itself
StoreErrors == {"P2002", "P1001"}

\* createLabel when prisma.label.create throws: the count check and the
\* bounds have passed, the store raises `thrown`, the catch block answers;
\* the error the store raised is kept as the outcome's `out`
createLabelRejected(data, thrown) ==
    LET eventIds == data.event_ids
        found == findEvents(eventIds)
    IN  /\ Cardinality(found) = Len(eventIds)
        /\ eventIds # << >>
        /\ result' = Outcome("createLabel", createLabelCatch(thrown), data, thrown)
        /\ UNCHANGED <<events, labels, labelEvents, nextId, clock>>

----------------------------------------------------------------------------
(* updateLabel *)

\* the catch block of updateLabel: a missing-record error of the store
\* becomes a 404, anything else thrown in the try block a 500
updateLabelCatch(thrown) == IF thrown = "P2025" THEN 404 ELSE 500

\* the sub-records after the upsert: the one named by the request's
\* label_type is written when its payload is part of the request; no other
\* sub-record is touched
updateSubs(row, data) ==
    IF data.label_type # NoValue /\ data.label_type \in data.sub
    THEN row.subs \cup {data.label_type}
    ELSE row.subs

\* the row after prisma.label.update({ where: { id }, data: updateData })
updateRow(row, data) ==
    [row EXCEPT
       !.label_type = IF data.label_type # NoValue THEN data.label_type ELSE @,
       !.notes = IF data.notes # NoValue THEN data.notes ELSE @,
       !.subs = updateSubs(row, data)]

\* a slip that creates the new associations without deleting the old
replaceEventsKeepOld(id, eventIds) ==
    labelEvents \cup {<<id, e>> : e \in Range(eventIds)}

\* the join table after events: { deleteMany: {}, create: [...] } on label id
replaceEvents(id, eventIds) ==
    {le \in labelEvents : le[1] # id} \cup {<<id, e>> : e \in Range(eventIds)}

updateLabel(id, data) ==
    LET given == data.has_event_ids
        eventIds == IF given THEN data.event_ids ELSE << >>
        found == findEvents(eventIds)
    IN  IF given /\ Cardinality(found) # Len(eventIds)
        THEN Fails("updateLabel", updateLabelCatch("AppError404"), [id |-> id, data |-> data])
        ELSE IF id \notin DOMAIN labels
        THEN Fails("updateLabel", updateLabelCatch("P2025"), [id |-> id, data |-> data])
        ELSE
          LET row == updateRow(labels[id], data)
              assoc == IF given THEN replaceEvents(id, eventIds) ELSE labelEvents
              now == {le[2] : le \in {x \in assoc : x[1] = id}}
          IN  \E rows \in Perms(found), included \in Perms(now) :
                LET listed == SortBy(included, timestampOf)
                    \* with event_ids given, the image paths come from the
                    \* rows found before the update; the label's events are
                    \* listed as the store returns them
                    eventList == IF given THEN included ELSE listed
                    imagePaths == IF given
                                  THEN Map(SortBy(rows, timestampOf), imagePathOf)
                                  ELSE Map(listed, imagePathOf)
                IN  /\ labels' = [labels EXCEPT ![id] = row]
                    /\ labelEvents' = assoc
                    /\ result' = Outcome("updateLabel", 200, [id |-> id, data |-> data],
                                    LabelDto(id, row, eventList, imagePaths))
                    /\ UNCHANGED <<events, nextId, clock>>

----------------------------------------------------------------------------
(* deleteLabel, deleteLabelsBulk *)

\* a slip that reports every failure of the delete alike
deleteLabelCatchGeneric(thrown) == 500

\* the catch block of deleteLabel
deleteLabelCatch(thrown) == IF thrown = "P2025" THEN 404 ELSE 500

\* the label table without the rows of ids
withoutLabels(ids) == [i \in DOMAIN labels \ ids |-> labels[i]]

\* the join table once the rows of ids are gone: the associations of a
\* deleted label go with it
withoutAssociations(ids) == {le \in labelEvents : le[1] \notin ids}

deleteLabel(id) ==
    IF id \notin DOMAIN labels
    THEN Fails("deleteLabel", deleteLabelCatch("P2025"), id)
    ELSE /\ labels' = withoutLabels({id})
         /\ labelEvents' = withoutAssociations({id})
         /\ result' = Outcome("deleteLabel", 200, id, NoValue)
         /\ UNCHANGED <<events, nextId, clock>>

\* a slip that deletes by the first id of the list only
bulkMatchesFirst(labelIds) ==
    {i \in DOMAIN labels : labelIds # << >> /\ i = labelIds[1]}

\* the rows prisma.label.deleteMany({ where: { id: { in: labelIds } } }) matches
bulkMatches(labelIds) == {i \in DOMAIN labels : i \in Range(labelIds)}

deleteLabelsBulk(labelIds) ==
    /\ labels' = withoutLabels(bulkMatches(labelIds))
    /\ labelEvents' = withoutAssociations(bulkMatches(labelIds))
    /\ result' = Outcome("deleteLabelsBulk", 200, labelIds, NoValue)
    /\ UNCHANGED <<events, nextId, clock>>

----------------------------------------------------------------------------
(* getUnlabeledEvents, getLabels *)

MsPerSecond == 1000

\* an optional Date of a request: << >> when absent, <<t>> when given
NoDate == << >>

\* BigInt(Math.floor(date.getTime() / 1000))
toTimestamp(ms) == ms \div MsPerSecond

\* a slip that skips the asked page too
skipOfNextPage(page, limit) == page * limit

\* const skip = (page - 1) * limit
skipOf(page, limit) == (page - 1) * limit

\* findMany({ skip, take }) on the ordered rows
skipTake(rows, skip, take) ==
    [k \in 1..(IF Len(rows) - skip < take THEN
                 (IF Len(rows) - skip < 0 THEN 0 ELSE Len(rows) - skip)
               ELSE take) |-> rows[skip + k]]

\* orderBy: { key: sort || 'desc' } applied to rows the store holds in some order
orderBy(rows, key, sort) ==
    IF sort = "asc" THEN SortBy(rows, key)
    ELSE Reverse(SortBy(Reverse(rows), key))

\* the where clause of getUnlabeledEvents
unlabeledWhere(e, options) ==
    /\ labelsOfEvent(e) = {}
    /\ options.startDate # NoDate
         => events[e].timestamp >= toTimestamp(options.startDate[1])
    /\ options.endDate # NoDate
         => events[e].timestamp <= toTimestamp(options.endDate[1])
    /\ options.deviceId # NoValue => events[e].device_id = options.deviceId
    /\ options.types # << >> => events[e].type \in Range(options.types)

getUnlabeledEvents(options) ==
    LET matching == {e \in DOMAIN events : unlabeledWhere(e, options)}
        total == Cardinality(matching)
    IN  \E stored \in Perms(matching) :
          LET page == skipTake(orderBy(stored, timestampOf, options.sort),
                               skipOf(options.page, options.limit), options.limit)
          IN  /\ result' = Outcome("getUnlabeledEvents", 200, options,
                              [items |-> [k \in DOMAIN page |->
                                            [id |-> page[k],
                                             timestamp |-> timestampOf[page[k]]]],
                               total |-> total,
                               totalPages |-> MathCeil(total, options.limit),
                               currentPage |-> options.page])
              /\ UNCHANGED <<events, labels, labelEvents, nextId, clock>>

\* the where clause of getLabels
labelsWhere(id, options) ==
    /\ options.startDate # NoDate => labels[id].created_at >= options.startDate[1]
    /\ options.endDate # NoDate => labels[id].created_at <= options.endDate[1]
    /\ options.createdBy # NoValue => labels[id].created_by = options.createdBy
    /\ options.labelType # NoValue => labels[id].label_type = options.labelType
    /\ options.deviceId # NoValue
         => \E e \in eventsOfLabel(id) : events[e].device_id = options.deviceId

getLabels(options) ==
    LET matching == {id \in DOMAIN labels : labelsWhere(id, options)}
        total == Cardinality(matching)
        createdAtOf == [id \in DOMAIN labels |-> labels[id].created_at]
    IN  \E stored \in Perms(matching), eventRows \in Perms(DOMAIN events) :
          LET page == skipTake(orderBy(stored, createdAtOf, options.sort),
                               skipOf(options.page, options.limit), options.limit)
              \* the events of a label as the store lists them, then sorted
              listed(id) == SortBy(SelectSeq(eventRows,
                                     LAMBDA e : e \in eventsOfLabel(id)),
                                   timestampOf)
          IN  /\ result' = Outcome("getLabels", 200, options,
                              [items |-> [k \in DOMAIN page |->
                                            LabelDto(page[k], labels[page[k]],
                                                     listed(page[k]),
                                                     Map(listed(page[k]), imagePathOf))],
                               total |-> total,
                               totalPages |-> MathCeil(total, options.limit),
                               currentPage |-> options.page])
              /\ UNCHANGED <<events, labels, labelEvents, nextId, clock>>

----------------------------------------------------------------------------
(* getProgramGuideByDate *)

\* the device table
StoredDevices == {"d1", "d2", "d3"}

MsPerDay == 24 * 60 * 60 * MsPerSecond
SecondsPerDay == MsPerDay \div MsPerSecond

\* new Date(date).setUTCHours(0, 0, 0, 0), in ms since the epoch
startOfDay(date) == (date \div MsPerDay) * MsPerDay

\* new Date(date).setUTCHours(23, 59, 59, 999)
endOfDay(date) == startOfDay(date) + MsPerDay - 1

\* the catch block of getProgramGuideByDate: an AppError keeps its status
guideCatch(thrown) == IF thrown = "AppError404" THEN 404 ELSE 500

\* a slip that leaves out the labels that begin before the day and end after it
guideWhereNoSpan(id, date, deviceId) ==
    LET startTimestamp == toTimestamp(startOfDay(date))
        endTimestamp == toTimestamp(endOfDay(date))
        row == labels[id]
    IN  /\ \/ row.start_time >= startTimestamp /\ row.start_time <= endTimestamp
           \/ row.end_time >= startTimestamp /\ row.end_time <= endTimestamp
        /\ \E e \in eventsOfLabel(id) : events[e].device_id = deviceId

\* the where clause of getProgramGuideByDate
guideWhere(id, date, deviceId) ==
    LET startTimestamp == toTimestamp(startOfDay(date))
        endTimestamp == toTimestamp(endOfDay(date))
        row == labels[id]
    IN  /\ \/ row.start_time >= startTimestamp /\ row.start_time <= endTimestamp
           \/ row.end_time >= startTimestamp /\ row.end_time <= endTimestamp
           \/ row.start_time <= startTimestamp /\ row.end_time >= endTimestamp
        /\ \E e \in eventsOfLabel(id) : events[e].device_id = deviceId

\* query is [date, deviceId, sort]; sort defaults to 'desc'
getProgramGuideByDate(query) ==
    IF query.deviceId \notin StoredDevices
    THEN Fails("getProgramGuideByDate", guideCatch("AppError404"), query)
    ELSE
      LET matching == {id \in DOMAIN labels :
                         guideWhere(id, query.date, query.deviceId)}
          startTimeOf == [id \in DOMAIN labels |-> labels[id].start_time]
      IN  \E stored \in Perms(matching), eventRows \in Perms(DOMAIN events) :
            LET found == orderBy(stored, startTimeOf, query.sort)
                \* the events of a label as the store lists them
                listed(id) == SelectSeq(eventRows, LAMBDA e : e \in eventsOfLabel(id))
                dto(id) ==
                    [id |-> id, label_type |-> labels[id].label_type,
                     created_by |-> labels[id].created_by,
                     created_at |-> labels[id].created_at,
                     start_time |-> labels[id].start_time,
                     end_time |-> labels[id].end_time,
                     notes |-> labels[id].notes,
                     device_id |-> IF listed(id) = << >> THEN Null
                                   ELSE events[listed(id)[1]].device_id,
                     image_paths |-> Map(SortBy(listed(id), timestampOf), imagePathOf),
                     subs |-> labels[id].subs]
            IN  /\ result' = Outcome("getProgramGuideByDate", 200, query,
                                [k \in DOMAIN found |-> dto(found[k])])
                /\ UNCHANGED <<events, labels, labelEvents, nextId, clock>>

----------------------------------------------------------------------------
(* Requests *)

\* the label types the requests use
InputTypes == {"song", "ad"}

EventIdLists == SeqsUpTo(EventIds \cup {MissingEventId}, MaxIds)

LabelIdLists == SeqsUpTo(LabelIds \cup {MissingLabelId}, MaxIds)

CreateData(lists, types, users, payloads) ==
    [event_ids : lists, label_type : types, created_by : users,
     notes : {Null}, sub : payloads]

\* has_event_ids tells whether the request carries event_ids at all
UpdateData(lists, types, notes, payloads) ==
    [has_event_ids : {TRUE}, event_ids : lists, label_type : types,
     notes : notes, sub : payloads]
    \cup
    [has_event_ids : {FALSE}, event_ids : {<< >>}, label_type : types,
     notes : notes, sub : payloads]

UnlabeledOptions ==
    [page : 1..MaxPage, limit : 1..MaxLimit,
     startDate : {NoDate, <<MsPerSecond + 500>>, <<2 * MsPerSecond>>},
     endDate : {NoDate, <<MsPerSecond + 500>>},
     deviceId : {NoValue, "d1"},
     types : {<< >>, <<"t1">>},
     sort : {NoValue, "asc", "desc"}]

LabelsOptions ==
    [page : 1..MaxPage, limit : 1..MaxLimit,
     startDate : {NoDate, <<2>>},
     endDate : {NoDate, <<1>>},
     createdBy : {NoValue, "u1"},
     labelType : {NoValue, "song"},
     deviceId : {NoValue, "d1"},
     sort : {NoValue, "asc", "desc"}]

\* Spec: the calls that write, over every event list; one label type, its
\* payload given
Next ==
    \/ \E data \in CreateData(EventIdLists, {"song"}, {"u1"}, {{"song"}}) :
         createLabel(data)
    \/ \E id \in LabelIds \cup {MissingLabelId},
          data \in UpdateData(EventIdLists, {NoValue}, {NoValue}, {{}}) :
            updateLabel(id, data)
    \/ \E id \in LabelIds \cup {MissingLabelId} : deleteLabel(id)
    \/ \E labelIds \in LabelIdLists : deleteLabelsBulk(labelIds)

Spec == Init /\ [][Next]_vars

\* SpecTypes: the calls that write, over every label type of the requests
\* and every payload, on the events of one list
NextTypes ==
    \/ \E data \in CreateData({<<1>>}, InputTypes, {"u1"},
                              {{}} \cup {{t} : t \in InputTypes}) :
         createLabel(data)
    \/ \E id \in LabelIds \cup {MissingLabelId},
          data \in UpdateData({<<1>>}, InputTypes \cup {NoValue},
                              {NoValue, Null, "n"},
                              {{}} \cup {{t} : t \in InputTypes}) :
            updateLabel(id, data)
    \/ \E id \in LabelIds \cup {MissingLabelId} : deleteLabel(id)
    \/ \E labelIds \in LabelIdLists : deleteLabelsBulk(labelIds)

SpecTypes == Init /\ [][NextTypes]_vars

\* SpecQuery: labels of two types by two users, on events of one device, of
\* the other and of both, are created and deleted, and the listings are
\* asked for. A listing leaves the store as it is, so every store a run
\* reaches is reached by the writes of the run alone: the behaviours kept
\* here are the runs of writes that end with one listing.
ListingOps == {"getLabels", "getUnlabeledEvents"}

CreateQuery ==
    /\ result.op \notin ListingOps
    /\ \E data \in CreateData({<<1>>, <<MaxEvents>>, <<MaxEvents, 1>>},
                              InputTypes, Users, {InputTypes}) :
         createLabel(data)

DeleteQuery ==
    /\ result.op \notin ListingOps
    /\ \E id \in LabelIds : deleteLabel(id)

UnlabeledQuery ==
    /\ result.op \notin ListingOps
    /\ \E options \in UnlabeledOptions : getUnlabeledEvents(options)

LabelsQuery ==
    /\ result.op \notin ListingOps
    /\ \E options \in LabelsOptions : getLabels(options)

NextQuery == CreateQuery \/ DeleteQuery \/ UnlabeledQuery \/ LabelsQuery

SpecQuery == Init /\ [][NextQuery]_vars

\* SpecConflict: labels are created and deleted, and the store may refuse
\* a create
NextConflict ==
    \/ \E data \in CreateData(EventIdLists, {"song"}, {"u1"}, {{"song"}}) :
         createLabel(data)
    \/ \E data \in CreateData(EventIdLists, {"song"}, {"u1"}, {{"song"}}),
          thrown \in StoreErrors :
         createLabelRejected(data, thrown)
    \/ \E id \in LabelIds \cup {MissingLabelId} : deleteLabel(id)

SpecConflict == Init /\ [][NextConflict]_vars

\* SpecGuide: an event table that spans three days (event 1 in the last
\* second of day 0, event 2 in the first second of day 1, event 3 in day 2);
\* labels are created, updated and deleted, and the program guide is asked
\* for. The guide leaves the store as it is: the behaviours kept are the
\* runs of writes that end with one guide call.
GuideTimestampOf(e) ==
    IF e = 1 THEN SecondsPerDay - 1
    ELSE IF e = 2 THEN SecondsPerDay
    ELSE IF e = 3 THEN 2 * SecondsPerDay + 5
    ELSE SecondsPerDay + e

InitGuide ==
    /\ events = [e \in EventIds |->
                   [timestamp |-> GuideTimestampOf(e), device_id |-> DeviceOf(e),
                    type |-> TypeOf(e), image_path |-> ImageOf(e)]]
    /\ labels = << >>
    /\ labelEvents = {}
    /\ nextId = 1
    /\ clock = 1
    /\ result = [op |-> "none", status |-> 200, arg |-> NoValue, out |-> NoValue]

\* the event lists of the writes: stored events, each once, in id order
GuideLists ==
    {l \in EventIdLists :
       /\ l # << >>
       /\ \A i \in DOMAIN l : l[i] \in EventIds
       /\ \A i, j \in DOMAIN l : i < j => l[i] < l[j]}

GuideQueries ==
    [date : {MsPerDay \div 2, MsPerDay, 2 * MsPerDay - 1,
             2 * MsPerDay + 1500, 3 * MsPerDay + 7},
     deviceId : StoredDevices \cup {"d9"},
     sort : {NoValue, "asc", "desc"}]

GuideOps == {"getProgramGuideByDate"}

CreateGuide ==
    /\ result.op \notin GuideOps
    /\ \E data \in CreateData(GuideLists, {"song"}, {"u1"}, {{"song"}}) :
         createLabel(data)

UpdateGuide ==
    /\ result.op \notin GuideOps
    /\ \E id \in LabelIds,
          data \in UpdateData(GuideLists, {NoValue}, {NoValue}, {{}}) :
            updateLabel(id, data)

DeleteGuide ==
    /\ result.op \notin GuideOps
    /\ \E id \in LabelIds : deleteLabel(id)

GuideQuery ==
    /\ result.op \notin GuideOps
    /\ \E query \in GuideQueries : getProgramGuideByDate(query)

NextGuide == CreateGuide \/ UpdateGuide \/ DeleteGuide \/ GuideQuery

SpecGuide == InitGuide /\ [][NextGuide]_vars

----------------------------------------------------------------------------
(* Properties of the store and of the calls *)

timesOf(ids) == {timestampOf[e] : e \in ids}

IsMin(m, xs) == m \in xs /\ \A x \in xs : m <= x
IsMax(m, xs) == m \in xs /\ \A x \in xs : m >= x

Distinct(s) == \A i, j \in DOMAIN s : i # j => s[i] # s[j]

\* the event an image path belongs to
eventOfImage(p) == CHOOSE e \in DOMAIN events : imagePathOf[e] = p

AllStored(ids) == \A i \in DOMAIN ids : ids[i] \in DOMAIN events

\* C1: a createLabel call whose event_ids is a non-empty list of distinct
\* ids of stored events succeeds; the label returned has start_time the
\* minimum and end_time the maximum of the events' timestamps, and
\* image_paths lists the image paths of exactly those events, in ascending
\* order of event timestamp.
C1_CreateBoundsAndImageOrder ==
    (/\ result.op = "createLabel"
     /\ result.arg.event_ids # << >>
     /\ Distinct(result.arg.event_ids)
     /\ AllStored(result.arg.event_ids))
    => /\ result.status = 200
       /\ LET ids == Range(result.arg.event_ids)
              paths == result.out.image_paths
          IN  /\ IsMin(result.out.start_time, timesOf(ids))
              /\ IsMax(result.out.end_time, timesOf(ids))
              /\ Len(paths) = Cardinality(ids)
              /\ Range(paths) = {imagePathOf[e] : e \in ids}
              /\ \A i, j \in DOMAIN paths :
                   i < j => timestampOf[eventOfImage(paths[i])]
                              <= timestampOf[eventOfImage(paths[j])]

\* a create of two events given latest first
C1_Witness ==
    /\ result.op = "createLabel"
    /\ result.status = 200
    /\ Len(result.arg.event_ids) = 2
    /\ timestampOf[result.arg.event_ids[1]] > timestampOf[result.arg.event_ids[2]]
    /\ result.out.start_time < result.out.end_time

\* C2: a createLabel call in which at least one id of event_ids names no
\* stored event fails with a not-found (404) application error, and creates
\* no label and no association.
C2_MissingEventIsNotFound ==
    [][(/\ result'.op = "createLabel"
        /\ ~AllStored(result'.arg.event_ids))
       => /\ result'.status = 404
          /\ labels' = labels
          /\ labelEvents' = labelEvents]_vars

\* C3: after a successful updateLabel(id, data) with data.event_ids given,
\* the events associated with label id are exactly those of data.event_ids,
\* and the associations of every other label are as before the call.
C3_UpdateReplacesEvents ==
    [][(/\ result'.op = "updateLabel"
        /\ result'.status = 200
        /\ result'.arg.data.has_event_ids)
       => /\ {le[2] : le \in {x \in labelEvents' : x[1] = result'.arg.id}}
               = Range(result'.arg.data.event_ids)
          /\ {le \in labelEvents' : le[1] # result'.arg.id}
               = {le \in labelEvents : le[1] # result'.arg.id}]_vars

\* an update has replaced the events of a label by others (its start_time
\* is that of an event it no longer has), next to a second label with events
C3_Witness ==
    /\ result.op = "updateLabel"
    /\ result.status = 200
    /\ result.arg.data.has_event_ids
    /\ eventsOfLabel(result.arg.id) # {}
    /\ labels[result.arg.id].start_time \notin timesOf(eventsOfLabel(result.arg.id))
    /\ \E o \in DOMAIN labels : o # result.arg.id /\ eventsOfLabel(o) # {}

\* C4: every stored label's start_time is the minimum and its end_time the
\* maximum of the timestamps of the events associated with it.
C4_BoundsFollowEvents ==
    \A id \in DOMAIN labels :
        eventsOfLabel(id) # {}
        => /\ IsMin(labels[id].start_time, timesOf(eventsOfLabel(id)))
           /\ IsMax(labels[id].end_time, timesOf(eventsOfLabel(id)))

\* C6: every stored label is associated with at least one event, and every
\* event it is associated with is stored.
C6_EventSetNonEmpty ==
    \A id \in DOMAIN labels :
        /\ eventsOfLabel(id) # {}
        /\ eventsOfLabel(id) \subseteq DOMAIN events

\* C7: every stored label has start_time <= end_time.
C7_StartNotAfterEnd ==
    \A id \in DOMAIN labels : labels[id].start_time <= labels[id].end_time

\* a label spanning two timestamps, after an update of its events
C7_Witness ==
    /\ result.op = "updateLabel"
    /\ result.status = 200
    /\ result.arg.data.has_event_ids
    /\ labels[result.arg.id].start_time < labels[result.arg.id].end_time

\* C8: deleteLabel(id) for an id that names no stored label fails with a
\* not-found (404) application error and leaves labels and associations as
\* they were; for an id of a stored label it removes that label and no other.
C8_DeleteOneLabel ==
    [][result'.op = "deleteLabel"
       => IF result'.arg \notin DOMAIN labels
          THEN /\ result'.status = 404
               /\ labels' = labels
               /\ labelEvents' = labelEvents
          ELSE /\ result'.status = 200
               /\ DOMAIN labels' = DOMAIN labels \ {result'.arg}
               /\ \A o \in DOMAIN labels' : labels'[o] = labels[o]
               /\ {le \in labelEvents' : le[1] # result'.arg}
                    = {le \in labelEvents : le[1] # result'.arg}]_vars

\* a label was deleted and another is still stored
C8_Witness ==
    /\ result.op = "deleteLabel"
    /\ result.status = 200
    /\ result.arg < nextId
    /\ result.arg \notin DOMAIN labels
    /\ \E o \in DOMAIN labels : eventsOfLabel(o) # {}

\* C9: deleteLabelsBulk(labelIds) with ids of stored labels mixed with ids
\* that name no label completes without error, removes exactly the stored
\* labels whose id is in the list, and leaves every other label as it was.
C9_BulkDeleteListed ==
    [][result'.op = "deleteLabelsBulk"
       => /\ result'.status = 200
          /\ DOMAIN labels' = DOMAIN labels \ Range(result'.arg)
          /\ \A o \in DOMAIN labels' : labels'[o] = labels[o]
          /\ {le \in labelEvents' : le[1] \notin Range(result'.arg)}
               = {le \in labelEvents : le[1] \notin Range(result'.arg)}]_vars

\* a bulk delete of a created label and of an id that names none, with a
\* label outside the list still stored
C9_Witness ==
    /\ result.op = "deleteLabelsBulk"
    /\ result.status = 200
    /\ MissingLabelId \in Range(result.arg)
    /\ \E i \in Range(result.arg) : i < nextId /\ i \notin DOMAIN labels
    /\ \E o \in DOMAIN labels : o \notin Range(result.arg)

\* C5: every stored label has exactly one non-null sub-record among song,
\* ad, error, program, movie, promo and sports, the one named by its
\* label_type.
C5_OneSubRecordOfType ==
    \A id \in DOMAIN labels :
        /\ labels[id].subs \subseteq LabelTypes
        /\ labels[id].subs = {labels[id].label_type}

\* the records a listing call's filters match, and the key it orders by
matchingOf(op, options) ==
    IF op = "getLabels"
    THEN {id \in DOMAIN labels : labelsWhere(id, options)}
    ELSE {e \in DOMAIN events : unlabeledWhere(e, options)}

sortKeyOf(op, x) ==
    IF op = "getLabels" THEN labels[x].created_at ELSE events[x].timestamp

IsOrdered(op, s, sort) ==
    \A i, j \in DOMAIN s :
        i < j => IF sort = "asc" THEN sortKeyOf(op, s[i]) <= sortKeyOf(op, s[j])
                 ELSE sortKeyOf(op, s[i]) >= sortKeyOf(op, s[j])

IsListing == result.op \in ListingOps

\* C10: a getLabels or getUnlabeledEvents call with page >= 1 and limit >= 1
\* returns total = the number of stored records its filters match,
\* totalPages = ceil(total / limit), currentPage = page, and as its page
\* the records at positions (page-1)*limit+1 .. min(page*limit, total) of
\* the matching records in the order asked for.
C10_PageOfListing ==
    IsListing =>
      LET o == result.arg
          matching == matchingOf(result.op, o)
          total == Cardinality(matching)
          first == (o.page - 1) * o.limit + 1
          last == IF o.page * o.limit < total THEN o.page * o.limit ELSE total
          items == result.out.items
      IN  /\ result.status = 200
          /\ result.out.total = total
          /\ result.out.totalPages * o.limit >= total
          /\ (result.out.totalPages - 1) * o.limit < total
          /\ result.out.currentPage = o.page
          /\ Len(items) <= o.limit
          /\ o.page > result.out.totalPages => items = << >>
          /\ \E s \in Perms(matching) :
               /\ IsOrdered(result.op, s, IF o.sort = NoValue THEN "desc" ELSE o.sort)
               /\ Len(items) = (IF last < first THEN 0 ELSE last - first + 1)
               /\ \A k \in DOMAIN items : items[k].id = s[first + k - 1]

\* the second page, of one, of two labels a creator filter matches, newest first
C10_Witness ==
    /\ result.op = "getLabels"
    /\ result.arg.createdBy # NoValue
    /\ result.arg.sort = NoValue
    /\ result.arg.page = 2
    /\ result.arg.limit = 1
    /\ result.out.total = 2
    /\ Len(result.out.items) = 1
    /\ result.out.items[1].created_at < MathMax({labels[id].created_at : id \in DOMAIN labels})

C12_UpdateMissingLabelIsNotFound ==
    [][(/\ result'.op = "updateLabel"
        /\ result'.arg.id \notin DOMAIN labels)
       => /\ result'.status = 404
          /\ labels' = labels
          /\ labelEvents' = labelEvents]_vars

\* the UTC day window of a date, in seconds since the epoch
windowStart(date) == (date \div MsPerDay) * SecondsPerDay
windowEnd(date) == windowStart(date) + SecondsPerDay - 1

IsGuide == result.op = "getProgramGuideByDate"

\* C13: for a stored device, getProgramGuideByDate(date, deviceId) returns
\* exactly the stored labels that have an event on the device and whose
\* [start_time, end_time] meets the UTC day window of date (start_time <=
\* window end and end_time >= window start), each once, ordered by
\* start_time in the direction asked for.
C13_GuideOfDay ==
    (IsGuide /\ result.arg.deviceId \in StoredDevices) =>
      LET q == result.arg
          expected == {id \in DOMAIN labels :
                         /\ \E e \in eventsOfLabel(id) :
                              events[e].device_id = q.deviceId
                         /\ labels[id].start_time <= windowEnd(q.date)
                         /\ labels[id].end_time >= windowStart(q.date)}
          items == result.out
      IN  /\ result.status = 200
          /\ {items[k].id : k \in DOMAIN items} = expected
          /\ Len(items) = Cardinality(expected)
          /\ \A i, j \in DOMAIN items :
               i < j => IF q.sort = "asc"
                        THEN items[i].start_time <= items[j].start_time
                        ELSE items[i].start_time >= items[j].start_time

\* of two stored labels the guide returns the one that begins before the
\* day and ends after it, and not the other
C13_Witness ==
    /\ IsGuide
    /\ result.status = 200
    /\ Cardinality(DOMAIN labels) = 2
    /\ Len(result.out) = 1
    /\ result.out[1].start_time < windowStart(result.arg.date)
    /\ result.out[1].end_time > windowEnd(result.arg.date)

====
